---- MODULE Spec2Model ----
(***************************************************************************)
(* Model of the chat hooks of src/src/hooks/data/useCreateMessage.ts:      *)
(*   useCreateMessage             (MessageAppender)                        *)
(*   useCreateMessageNotification (NotificationEmitter)                    *)
(*   useCreateChat                (ChatEstablisher)                        *)
(*   useProcessNotification       (NotificationProcessor)                  *)
(* Every hook is an async function: a run is a record with a position pc   *)
(* that moves from one awaited external call to the next.  The document    *)
(* store (pods) is the shared state.  URIs are sequences of tokens, "/"    *)
(* and "#" being tokens of their own.                                      *)
(***************************************************************************)
EXTENDS Integers, Sequences, FiniteSets, TLC

(* ------------------------------ bounds ------------------------------- *)
\* total number of hook runs started in one behaviour
MaxRuns == 3
\* number of hook runs started when all four hooks are in use
MaxMixedRuns == 2
\* last day index the clock may reach (day 0 is 2023-12-30)
MaxDay == 2
\* number of hook runs concurrent callers keep in flight at once
MaxInFlight == 2
\* number of hook runs of the two clients that establish a conversation
MaxHandshakeRuns == 8

(* ------------------------------ inputs ------------------------------- *)
People == {"alice", "bob"}
NoUri == <<>>
NoRun == [kind |-> "none", pc |-> "idle", args |-> <<>>, loc |-> <<>>,
          calls |-> <<>>, result |-> "none"]

\* the storage root of a person
Pod(p) == <<p, "/">>
\* hospexContainer argument of useCreateChat, one per person
HospexContainer(p) == Pod(p) \o <<"hospex", "/">>
\* privateTypeIndex argument of useCreateChat, one per person
PrivateTypeIndex(p) == Pod(p) \o <<"settings", "/", "privateTypeIndex.ttl">>
\* inbox argument of useCreateMessageNotification, one per person
Inbox(p) == Pod(p) \o <<"inbox", "/">>

(* --------------------------- pure helpers ---------------------------- *)
\* uuid.v4(): the n-th identifier the generator hands out
Uuid(n) == "uuid" \o ToString(n)

\* utils/rdf-namespaces meeting.LongChat
MeetingLongChat == "http://www.w3.org/ns/pim/meeting#LongChat"
\* rdf-namespaces solid.publicTypeIndex
PublicTypeIndexTerm == <<"http://www.w3.org/ns/solid/terms#publicTypeIndex">>

AclRead == "Read"
AclWrite == "Write"
AclControl == "Control"

RECURSIVE LastIndexOf(_, _)
\* position of the last token t of uri, 0 when there is none
LastIndexOf(uri, t) ==
  IF uri = <<>> THEN 0
  ELSE IF uri[Len(uri)] = t THEN Len(uri)
  ELSE LastIndexOf(SubSeq(uri, 1, Len(uri) - 1), t)

RECURSIVE FirstIndexOf(_, _)
\* position of the first token t of uri, 0 when there is none
FirstIndexOf(uri, t) ==
  IF uri = <<>> THEN 0
  ELSE IF Head(uri) = t THEN 1
  ELSE LET i == FirstIndexOf(Tail(uri), t) IN IF i = 0 THEN 0 ELSE i + 1

\* utils/helpers getContainer: the uri up to and including its last "/"
getContainer(uri) == SubSeq(uri, 1, LastIndexOf(uri, "/"))

\* the document a uri is stored in: the uri without its "#fragment"
DocOf(uri) ==
  LET i == FirstIndexOf(uri, "#")
  IN IF i = 0 THEN uri ELSE SubSeq(uri, 1, i - 1)

DigitStr == <<"0", "1", "2", "3", "4", "5", "6", "7", "8", "9">>
Pad2(n) == DigitStr[((n \div 10) % 10) + 1] \o DigitStr[(n % 10) + 1]
Pad4(n) == Pad2(n \div 100) \o Pad2(n % 100)

\* the calendar date of day index n; day 0 is 2023-12-30, so that the
\* month and the year roll over within the first days
DateOf(n) ==
  IF n <= 1 THEN [y |-> 2023, m |-> 12, d |-> 30 + n]
  ELSE [y |-> 2024, m |-> 1, d |-> n - 1]

\* mutant of FormatDate: the format string lacks the day
FormatDate_NoDay(date) == <<Pad4(date.y), "/", Pad2(date.m)>>

\* dayjs().format('YYYY/MM/DD') as path tokens
FormatDate(date) == <<Pad4(date.y), "/", Pad2(date.m), "/", Pad2(date.d)>>


\* parse-link-header: the url of relation rel in a parsed Link header,
\* NoUri when the header is null or has no such relation
LinkUrl(header, rel) ==
  IF \E i \in 1..Len(header) : header[i].rel = rel
  THEN header[CHOOSE i \in 1..Len(header) : header[i].rel = rel].url
  ELSE NoUri

\* the Link headers a server may answer a HEAD on container c with:
\* none at all, one without an acl relation, one with it
HeadResponses(c) ==
  { <<>>,
    << [rel |-> "type", url |-> <<"http://www.w3.org/ns/ldp#Container">>] >>,
    << [rel |-> "type", url |-> <<"http://www.w3.org/ns/ldp#Container">>],
       [rel |-> "acl", url |-> c \o <<".acl">>] >> }

(* ------------------------------- state ------------------------------- *)
VARIABLES
  chats,        \* chat documents: document uri -> chat record
  logs,         \* day log documents: document uri -> list of messages
  acls,         \* ACL resources: acl uri -> list of authorizations
  index,        \* type index documents: uri -> list of type registrations
  inbox,        \* notification documents: uri -> activity record
  runs,         \* the hook runs: run number -> run record
  uuidCounter,  \* identifiers handed out by uuid.v4() so far
  today,        \* the clock: current day index
  maxInFlight   \* how many runs the callers keep in flight at once

vars == <<chats, logs, acls, index, inbox, runs, uuidCounter, today, maxInFlight>>

\* the runs of a behaviour, numbered in starting order
RunIds == DOMAIN runs
Finished(r) == runs[r].pc \in {"done", "failed", "abandoned"}
InFlight(r) == runs[r].pc \notin {"idle", "done", "failed", "abandoned"}

\* a chat document some other application left in a pod: no participation
ForeignEmptyChat == <<"dave", "/", "chats", "/", "empty", "/", "index.ttl">>
\* a chat document of some other application with three participants, the
\* first of them already linked to a chat
ForeignGroupChat == <<"dave", "/", "chats", "/", "group", "/", "index.ttl">>

ForeignParticipation(doc, n, p) ==
  [id |-> doc \o <<"#", "p" \o ToString(n)>>, dtstart |-> 0,
   participant |-> p, references |-> <<>>]

InitChats ==
  (ForeignEmptyChat :>
     [id |-> ForeignEmptyChat \o <<"#", "this">>, type |-> "LongChat",
      author |-> "dave", created2 |-> 0, title |-> "empty",
      hasParticipation |-> FALSE, participation |-> <<>>])
  @@
  (ForeignGroupChat :>
     [id |-> ForeignGroupChat \o <<"#", "this">>, type |-> "LongChat",
      author |-> "dave", created2 |-> 0, title |-> "group",
      hasParticipation |-> TRUE,
      participation |->
        << [ForeignParticipation(ForeignGroupChat, 1, "carol")
              EXCEPT !.references = <<ForeignEmptyChat \o <<"#", "this">> >>],
           ForeignParticipation(ForeignGroupChat, 2, "alice"),
           ForeignParticipation(ForeignGroupChat, 3, "dave") >>])

\* alice's private type index already lists a bookmark registration and a
\* LongChat registration; bob's is still empty
InitIndex ==
  (PrivateTypeIndex("alice") :>
     << [id |-> PrivateTypeIndex("alice") \o <<"#", "bookmarks">>,
         type |-> "TypeRegistration", forClass |-> <<"Bookmark">>,
         instance |-> <<>>],
        [id |-> PrivateTypeIndex("alice") \o <<"#", "chats">>,
         type |-> "TypeRegistration", forClass |-> <<MeetingLongChat>>,
         instance |-> <<>>] >>)
  @@
  (PrivateTypeIndex("bob") :> <<>>)

\* a notification bob's client posted into alice's inbox earlier
InitNotification == Inbox("alice") \o <<"note0">>
InitInbox ==
  InitNotification :>
    [type |-> <<"Add">>, actor |-> "bob",
     context |-> "https://www.pod-chat.com/LongChatMessage",
     object |-> ForeignGroupChat \o <<"#", "msg-0">>,
     target |-> ForeignGroupChat \o <<"#", "this">>, updated |-> 0]

Init ==
  /\ chats = InitChats
  /\ logs = <<>>
  /\ acls = <<>>
  /\ index = InitIndex
  /\ inbox = InitInbox
  /\ runs = [r \in 1..MaxRuns |-> NoRun]
  /\ uuidCounter = 0
  /\ today = 0
  /\ maxInFlight = 1

(* ------------------------- run bookkeeping --------------------------- *)
\* a caller may start run r: the runs are numbered in starting order and
\* at most maxInFlight of them are in flight
CanStart(r) ==
  /\ runs[r].pc = "idle"
  /\ \A q \in RunIds : q < r => runs[q].pc # "idle"
  /\ Cardinality({q \in RunIds : InFlight(q)}) < maxInFlight

StartRun(r, kind, pc, args, loc) ==
  runs' = [runs EXCEPT ![r] = [kind |-> kind, pc |-> pc, args |-> args,
                               loc |-> loc, calls |-> <<>>, result |-> "none"]]

\* the awaited external call c of the run settled, fulfilled or rejected
Settled(run, c, ok) == [run EXCEPT !.calls = Append(@, [call |-> c, ok |-> ok])]

\* the awaited call c fulfilled and the run continues at pc
Called(run, c, pc) == [Settled(run, c, TRUE) EXCEPT !.pc = pc]

\* mutant of Rejected: the rejection is caught and the hook reports success
Rejected_Swallowed(run, c, err) ==
  [Settled(run, c, FALSE) EXCEPT !.pc = "done", !.result = "ok"]

\* the awaited call c rejected with err: the error propagates to the caller
Rejected(run, c, err) ==
  [Settled(run, c, FALSE) EXCEPT !.pc = "failed", !.result = err]

\* the hook itself threw err
Threw(run, err) == [run EXCEPT !.pc = "failed", !.result = err]

\* the hook returned
Returned(run) == [run EXCEPT !.pc = "done", !.result = "ok"]

StoreError == "store error"


(* ----------------- document mutation service (useRdfDocument) -------- *)
\* the document stored at uri in store, or empty when there is none
ReadDoc(store, uri, empty) ==
  IF DocOf(uri) \in DOMAIN store THEN store[DocOf(uri)] ELSE empty

\* the store with the document at uri replaced (or created) by doc
WriteDoc(store, uri, doc) ==
  [u \in DOMAIN store \cup {DocOf(uri)} |->
     IF u = DocOf(uri) THEN doc ELSE store[u]]

\* the store without the document at uri
DeleteDoc(store, uri) ==
  [u \in DOMAIN store \ {DocOf(uri)} |-> store[u]]

\* what a read of a missing chat document yields
EmptyChat ==
  [id |-> NoUri, type |-> "", author |-> "", created2 |-> 0, title |-> "",
   hasParticipation |-> FALSE, participation |-> <<>>]

(* ------------------------ useCreateChat ------------------------------ *)
\* mutant of OtherChatReferences: otherChat is not passed on
OtherChatReferences_Dropped(otherChat) == <<>>

\* the optional otherChat as a references list
OtherChatReferences(otherChat) ==
  IF otherChat # NoUri THEN <<otherChat>> ELSE <<>>

\* the chat document useCreateChat creates
NewChat(chatFile, chatId, me, otherPerson, otherChat, date, uuid1, uuid2) ==
  [id |-> chatId,
   type |-> "LongChat",
   author |-> me,
   created2 |-> date,
   title |-> "Hospex chat channel",
   hasParticipation |-> TRUE,
   participation |->
     << [id |-> chatFile \o <<"#", uuid1>>,
         dtstart |-> date,
         participant |-> me,
         references |-> <<>>],
        [id |-> chatFile \o <<"#", uuid2>>,
         dtstart |-> date,
         participant |-> otherPerson,
         references |-> OtherChatReferences(otherChat)] >>]

\* mutant of CounterpartModes: the counterpart may write as well
CounterpartModes_Writable == {AclRead, AclWrite}

\* the modes granted to the counterpart of a chat
CounterpartModes == {AclRead}
\* the modes granted to the owner of a chat
OwnerModes == {AclRead, AclWrite, AclControl}

\* the two authorizations useCreateChat creates on the ACL resource
NewAuthorizations(aclUri, me, otherPerson, chatContainer) ==
  << [id |-> aclUri \o <<"#", "ReadWriteControl">>,
      type |-> "Authorization",
      agent |-> <<me>>,
      accessTo |-> <<chatContainer>>,
      default |-> chatContainer,
      mode |-> OwnerModes],
     [id |-> aclUri \o <<"#", "Read">>,
      type |-> "Authorization",
      agent |-> <<otherPerson>>,
      accessTo |-> <<chatContainer>>,
      default |-> chatContainer,
      mode |-> CounterpartModes] >>

\* mutant of IsLongChatRegistration: only the full class IRI is matched
IsLongChatRegistration_IriOnly(registration) ==
  \E i \in 1..Len(registration.forClass) :
    registration.forClass[i] = MeetingLongChat

\* the predicate of the find at lines 186-190
IsLongChatRegistration(registration) ==
  \E i \in 1..Len(registration.forClass) :
    \/ registration.forClass[i] = MeetingLongChat
    \/ registration.forClass[i] = "LongChat"

\* Array.prototype.find: index of the first registration for LongChat, or 0
FindLongChatRegistration(references) ==
  IF \E i \in 1..Len(references) : IsLongChatRegistration(references[i])
  THEN CHOOSE i \in 1..Len(references) :
         /\ IsLongChatRegistration(references[i])
         /\ \A j \in 1..(i - 1) : ~IsLongChatRegistration(references[j])
  ELSE 0

\* the transform closure of the private type index update (lines 184-204)
RegisterChat(references, chatId, uuid) ==
  LET i == FindLongChatRegistration(references)
  IN IF i # 0
     THEN [references EXCEPT ![i].instance = Append(@, chatId)]
     ELSE Append(references,
                 [id |-> PublicTypeIndexTerm \o <<"#", uuid>>,
                  type |-> "TypeRegistration",
                  forClass |-> <<"LongChat">>,
                  instance |-> <<chatId>>])

\* the chats a caller may pass as chat
KnownChatIds == {chats[u].id : u \in DOMAIN chats}
\* the chats person p authored, which a caller may pass as otherChat
ChatsOf(p) == {chats[u].id : u \in {v \in DOMAIN chats : chats[v].author = p}}
\* a chat in person p's pod that is not among the documents modelled
RemoteChat(p) == Pod(p) \o <<"remote", "/", "index.ttl", "#", "this">>

\* mutant of NewChatContainer: the container name carries no identifier
NewChatContainer_NoUuid(hospexContainer, uuid) ==
  hospexContainer \o <<"messages", "/", "chat", "/">>

\* line 117: the container of a new chat
NewChatContainer(hospexContainer, uuid) ==
  hospexContainer \o <<"messages", "/", uuid, "/">>

\* lines 103-120: a caller starts useCreateChat; the identifiers are drawn
StartCreateChat(r, me, otherPerson, otherChat) ==
  /\ CanStart(r)
  /\ LET chatContainer == NewChatContainer(HospexContainer(me),
                                           Uuid(uuidCounter + 1))
         chatFile == chatContainer \o <<"index.ttl">>
         chatId == chatFile \o <<"#", "this">>
     IN StartRun(r, "createChat", "createChat",
                 [me |-> me, otherPerson |-> otherPerson,
                  otherChat |-> otherChat,
                  hospexContainer |-> HospexContainer(me),
                  privateTypeIndex |-> PrivateTypeIndex(me)],
                 [chatContainer |-> chatContainer, chatFile |-> chatFile,
                  chatId |-> chatId, date |-> today, aclUri |-> NoUri,
                  snap |-> <<>>,
                  data |-> NewChat(chatFile, chatId, me, otherPerson,
                                   otherChat, today,
                                   Uuid(uuidCounter + 2),
                                   Uuid(uuidCounter + 3))])
  /\ uuidCounter' = uuidCounter + 3
  /\ UNCHANGED <<chats, logs, acls, index, inbox, today, maxInFlight>>

\* lines 123-145: the chat document is created, or the store rejects
CreateChatDocument(r) ==
  /\ runs[r].kind = "createChat" /\ runs[r].pc = "createChat"
  /\ \E ok \in BOOLEAN :
       IF ok
       THEN /\ chats' = WriteDoc(chats, runs[r].loc.chatFile, runs[r].loc.data)
            /\ runs' = [runs EXCEPT ![r] = Called(@, "createChat", "head")]
       ELSE /\ runs' = [runs EXCEPT ![r] = Rejected(@, "createChat", StoreError)]
            /\ UNCHANGED chats
  /\ UNCHANGED <<logs, acls, index, inbox, uuidCounter, today, maxInFlight>>

NoWacLink == "We could not find WAC link for a given resource"

\* mutant of AfterDiscovery: the missing link is not checked
AfterDiscovery_Unchecked(run, aclUri) ==
  [run EXCEPT !.pc = "createAcl", !.loc.aclUri = aclUri]

\* where the run goes after the ACL discovery found aclUri (lines 151-152)
AfterDiscovery(run, aclUri) ==
  IF aclUri = NoUri
  THEN Threw(run, NoWacLink)
  ELSE [run EXCEPT !.pc = "createAcl", !.loc.aclUri = aclUri]

\* lines 147-152: HEAD on the container, the acl link is looked up
DiscoverAcl(r) ==
  /\ runs[r].kind = "createChat" /\ runs[r].pc = "head"
  /\ \/ runs' = [runs EXCEPT ![r] = Rejected(@, "head", StoreError)]
     \/ \E header \in HeadResponses(runs[r].loc.chatContainer) :
          runs' = [runs EXCEPT ![r] =
            AfterDiscovery(Settled(@, "head", TRUE), LinkUrl(header, "acl"))]
  /\ UNCHANGED <<chats, logs, acls, index, inbox, uuidCounter, today, maxInFlight>>

\* lines 154-178: the two authorizations are created, or the store rejects
CreateAcl(r) ==
  /\ runs[r].kind = "createChat" /\ runs[r].pc = "createAcl"
  /\ \E ok \in BOOLEAN :
       IF ok
       THEN /\ acls' = WriteDoc(acls, runs[r].loc.aclUri,
                         NewAuthorizations(runs[r].loc.aclUri, runs[r].args.me,
                                           runs[r].args.otherPerson,
                                           runs[r].loc.chatContainer))
            /\ runs' = [runs EXCEPT ![r] = Called(@, "createAcl", "updatePrivate")]
       ELSE /\ runs' = [runs EXCEPT ![r] = Rejected(@, "createAcl", StoreError)]
            /\ UNCHANGED acls
  /\ UNCHANGED <<chats, logs, index, inbox, uuidCounter, today, maxInFlight>>

\* line 181: the update of the private type index fetches the document
ReadPrivateTypeIndex(r) ==
  /\ runs[r].kind = "createChat" /\ runs[r].pc = "updatePrivate"
  /\ \E ok \in BOOLEAN :
       runs' = [runs EXCEPT ![r] =
         IF ok
         THEN [@ EXCEPT !.pc = "updatePrivateWrite",
                        !.loc.snap = ReadDoc(index, runs[r].args.privateTypeIndex, <<>>)]
         ELSE Rejected(@, "updatePrivate", StoreError)]
  /\ UNCHANGED <<chats, logs, acls, index, inbox, uuidCounter, today, maxInFlight>>

\* lines 184-206: the transform runs on the fetched index and the result is
\* written back, or the store rejects the write
WritePrivateTypeIndex(r) ==
  /\ runs[r].kind = "createChat" /\ runs[r].pc = "updatePrivateWrite"
  /\ uuidCounter' = IF FindLongChatRegistration(runs[r].loc.snap) = 0
                    THEN uuidCounter + 1 ELSE uuidCounter
  /\ \E ok \in BOOLEAN :
       IF ok
       THEN /\ index' = WriteDoc(index, runs[r].args.privateTypeIndex,
                          RegisterChat(runs[r].loc.snap, runs[r].loc.chatId,
                                       Uuid(uuidCounter + 1)))
            /\ runs' = [runs EXCEPT ![r] = Returned(Settled(@, "updatePrivate", TRUE))]
       ELSE /\ runs' = [runs EXCEPT ![r] = Rejected(@, "updatePrivate", StoreError)]
            /\ UNCHANGED index
  /\ UNCHANGED <<chats, logs, acls, inbox, today, maxInFlight>>


(* ---------------------- useProcessNotification ----------------------- *)
\* Array.prototype.find at lines 244-246: index of the first participation
\* whose participant is otherPerson, or 0
FindParticipation(participation, otherPerson) ==
  IF \E i \in 1..Len(participation) : participation[i].participant = otherPerson
  THEN CHOOSE i \in 1..Len(participation) :
         /\ participation[i].participant = otherPerson
         /\ \A j \in 1..(i - 1) : participation[j].participant # otherPerson
  ELSE 0

\* mutant of TooMuchParticipation: the length test is off by one
TooMuchParticipation_OffByOne(participation) == Len(participation) > 3

\* line 242: the two-party guard
TooMuchParticipation(participation) == Len(participation) > 2

\* mutant of AlreadyReferences: the length test is off by one
AlreadyReferences_OffByOne(p) == Len(p.references) > 1

\* mutant of AlreadyReferences: the guard is missing
AlreadyReferences_Never(p) == FALSE

\* line 250: the at-most-once linking guard
AlreadyReferences(p) == Len(p.references) > 0

NoParticipationError == "no participation"
TooMuchError == "too much participation (only 2 people supported!)"
NotFoundError == "other person's participation not found"
AlreadyReferencesError == "participation alread references some other chat"

\* mutant of LinkError: the participation is looked up before it is counted
LinkError_FindFirst(ldo, otherPerson) ==
  IF ~ldo.hasParticipation THEN NoParticipationError
  ELSE IF FindParticipation(ldo.participation, otherPerson) = 0
  THEN NotFoundError
  ELSE IF AlreadyReferences(
            ldo.participation[FindParticipation(ldo.participation, otherPerson)])
  THEN AlreadyReferencesError
  ELSE IF TooMuchParticipation(ldo.participation) THEN TooMuchError
  ELSE "ok"

\* lines 241-251: the error the transform closure throws on ldo, or "ok"
LinkError(ldo, otherPerson) ==
  IF ~ldo.hasParticipation THEN NoParticipationError
  ELSE IF TooMuchParticipation(ldo.participation) THEN TooMuchError
  ELSE IF FindParticipation(ldo.participation, otherPerson) = 0
  THEN NotFoundError
  ELSE IF AlreadyReferences(
            ldo.participation[FindParticipation(ldo.participation, otherPerson)])
  THEN AlreadyReferencesError
  ELSE "ok"

\* mutant of LinkChat: the first participation is linked, whoever it is
LinkChat_FirstEntry(ldo, otherPerson, otherChat) ==
  [ldo EXCEPT !.participation[1].references = <<otherChat>>]

\* line 253: the chat with otherChat linked into otherPerson's participation
LinkChat(ldo, otherPerson, otherChat) ==
  [ldo EXCEPT !.participation[FindParticipation(ldo.participation, otherPerson)]
                 .references = <<otherChat>>]

\* every notification a caller may know of: those in the inboxes and those
\* earlier runs were given
KnownNotifications ==
  DOMAIN inbox \cup
  {runs[q].args.notificationId : q \in {x \in RunIds : runs[x].kind = "processNotification"}}

\* the people a notification may come from
Senders == People \cup {"carol"}

\* lines 222-237: a caller starts useProcessNotification
StartProcessNotification(r, notificationId, chat, otherChat, otherPerson) ==
  /\ CanStart(r)
  /\ StartRun(r, "processNotification", "updateChat",
              [notificationId |-> notificationId, chat |-> chat,
               otherChat |-> otherChat, otherPerson |-> otherPerson],
              [snap |-> EmptyChat])
  /\ UNCHANGED <<chats, logs, acls, index, inbox, uuidCounter, today, maxInFlight>>

\* line 237: the update of the chat fetches the chat document
ReadChat(r) ==
  /\ runs[r].kind = "processNotification" /\ runs[r].pc = "updateChat"
  /\ \E ok \in BOOLEAN :
       runs' = [runs EXCEPT ![r] =
         IF ok
         THEN [@ EXCEPT !.pc = "updateChatWrite",
                        !.loc.snap = ReadDoc(chats, runs[r].args.chat, EmptyChat)]
         ELSE Rejected(@, "updateChat", StoreError)]
  /\ UNCHANGED <<chats, logs, acls, index, inbox, uuidCounter, today, maxInFlight>>

\* mutant of AfterUpdateChat: the outcome of the update is not looked at
AfterUpdateChat_Unawaited(run, ok) == [run EXCEPT !.pc = "deleteNotification"]

\* lines 237-257: where the run goes once the awaited update settled
AfterUpdateChat(run, ok) ==
  IF ok THEN [run EXCEPT !.pc = "deleteNotification"]
  ELSE [run EXCEPT !.pc = "failed", !.result = StoreError]

\* lines 240-255: the transform runs on the fetched chat; when it throws
\* nothing is written, else the chat is written back or the store rejects
WriteChat(r) ==
  /\ runs[r].kind = "processNotification" /\ runs[r].pc = "updateChatWrite"
  /\ LET err == LinkError(runs[r].loc.snap, runs[r].args.otherPerson)
     IN IF err # "ok"
        THEN /\ runs' = [runs EXCEPT ![r] = Rejected(@, "updateChat", err)]
             /\ UNCHANGED chats
        ELSE \E ok \in BOOLEAN :
               /\ chats' = IF ok
                           THEN WriteDoc(chats, runs[r].args.chat,
                                  LinkChat(runs[r].loc.snap,
                                           runs[r].args.otherPerson,
                                           runs[r].args.otherChat))
                           ELSE chats
               /\ runs' = [runs EXCEPT ![r] =
                    AfterUpdateChat(Settled(@, "updateChat", ok), ok)]
  /\ UNCHANGED <<logs, acls, index, inbox, uuidCounter, today, maxInFlight>>

\* mutant of DeleteNotification: the hook returns without the delete
DeleteNotification_Skipped(r) ==
  /\ runs[r].kind = "processNotification" /\ runs[r].pc = "deleteNotification"
  /\ runs' = [runs EXCEPT ![r] = Returned(Settled(@, "deleteNotification", TRUE))]
  /\ UNCHANGED <<chats, logs, acls, index, inbox, uuidCounter, today, maxInFlight>>

\* line 257: the notification is deleted, or the store rejects (it also
\* rejects when there is no such document)
DeleteNotification(r) ==
  /\ runs[r].kind = "processNotification" /\ runs[r].pc = "deleteNotification"
  /\ \E ok \in BOOLEAN :
       IF ok /\ DocOf(runs[r].args.notificationId) \in DOMAIN inbox
       THEN /\ inbox' = DeleteDoc(inbox, runs[r].args.notificationId)
            /\ runs' = [runs EXCEPT ![r] = Returned(Settled(@, "deleteNotification", TRUE))]
       ELSE /\ runs' = [runs EXCEPT ![r] = Rejected(@, "deleteNotification", StoreError)]
            /\ UNCHANGED inbox
  /\ UNCHANGED <<chats, logs, acls, index, uuidCounter, today, maxInFlight>>

(* -------------------------- useCreateMessage ------------------------- *)
\* the days a read of the clock may return after it last returned day
ClockReads(day) == {d \in day..MaxDay : d <= day + 1}

\* lines 36 and 41: the log document of chat for the day the clock shows
LogDocument(chat, day) ==
  getContainer(chat) \o FormatDate(DateOf(day)) \o <<"/", "chat.ttl">>

\* mutant of NewMessage: text and sender are swapped
NewMessage_Swapped(id, createdAt, message, senderId) ==
  [id |-> id, created |-> createdAt, content |-> senderId,
   maker |-> message]

\* lines 45-50: the message record pushed to the list
NewMessage(id, createdAt, message, senderId) ==
  [id |-> id, created |-> createdAt, content |-> message,
   maker |-> senderId]

\* lines 26-41: a caller starts useCreateMessage; the clock is read for the
\* chat file (day1, line 36), for createdAt (line 38, on day1 or day2) and
\* again for the mutation uri (day2, line 41)
StartCreateMessage(r, senderId, message, chat) ==
  /\ CanStart(r)
  /\ \E day1 \in ClockReads(today) :
       \E day2 \in ClockReads(day1) :
       \E createdAt \in {day1, day2} :
         LET chatFile == LogDocument(chat, day1)
             id == chatFile \o <<"#", "msg-" \o Uuid(uuidCounter + 1)>>
         IN /\ StartRun(r, "createMessage", "updateLog",
                        [senderId |-> senderId, message |-> message,
                         chat |-> chat],
                        [chatFile |-> chatFile, id |-> id, createdAt |-> createdAt,
                         uri |-> LogDocument(chat, day2),
                         day1 |-> day1, day2 |-> day2,
                         snap |-> <<>>])
            /\ today' = day2
  /\ uuidCounter' = uuidCounter + 1
  /\ UNCHANGED <<chats, logs, acls, index, inbox, maxInFlight>>

\* line 40: the update fetches the log document (empty when there is none)
ReadLog(r) ==
  /\ runs[r].kind = "createMessage" /\ runs[r].pc = "updateLog"
  /\ \E ok \in BOOLEAN :
       runs' = [runs EXCEPT ![r] =
         IF ok
         THEN [@ EXCEPT !.pc = "updateLogWrite",
                        !.loc.snap = ReadDoc(logs, runs[r].loc.uri, <<>>)]
         ELSE Rejected(@, "updateLog", StoreError)]
  /\ UNCHANGED <<chats, logs, acls, index, inbox, uuidCounter, today, maxInFlight>>

\* lines 43-54: the message is pushed and the document written back
WriteLog(r) ==
  /\ runs[r].kind = "createMessage" /\ runs[r].pc = "updateLogWrite"
  /\ \E ok \in BOOLEAN :
       IF ok
       THEN /\ logs' = WriteDoc(logs, runs[r].loc.uri,
                         Append(runs[r].loc.snap,
                                NewMessage(runs[r].loc.id, runs[r].loc.createdAt,
                                           runs[r].args.message,
                                           runs[r].args.senderId)))
            /\ runs' = [runs EXCEPT ![r] = Returned(Settled(@, "updateLog", TRUE))]
       ELSE /\ runs' = [runs EXCEPT ![r] = Rejected(@, "updateLog", StoreError)]
            /\ UNCHANGED logs
  /\ UNCHANGED <<chats, acls, index, inbox, uuidCounter, today, maxInFlight>>

(* -------------------- useCreateMessageNotification ------------------- *)
\* mutant of NewActivity: actor and target are swapped
NewActivity_Swapped(senderId, messageId, chatId, updated) ==
  [type |-> <<"Add">>, actor |-> chatId,
   context |-> "https://www.pod-chat.com/LongChatMessage",
   object |-> messageId, target |-> senderId, updated |-> updated]

\* lines 80-91: the activity posted to the inbox
NewActivity(senderId, messageId, chatId, updated) ==
  [type |-> <<"Add">>, actor |-> senderId,
   context |-> "https://www.pod-chat.com/LongChatMessage",
   object |-> messageId, target |-> chatId, updated |-> updated]

\* the message ids earlier useCreateMessage runs returned
ReturnedMessageIds ==
  {runs[q].loc.id : q \in {x \in RunIds : runs[x].kind = "createMessage"
                                          /\ runs[x].pc = "done"}}

\* lines 63-77: a caller starts useCreateMessageNotification
StartCreateMessageNotification(r, to, senderId, messageId, chatId) ==
  /\ CanStart(r)
  /\ StartRun(r, "createMessageNotification", "postInbox",
              [inbox |-> Inbox(to), senderId |-> senderId,
               messageId |-> messageId, chatId |-> chatId,
               updated |-> today],
              [posted |-> NoUri])
  /\ UNCHANGED <<chats, logs, acls, index, inbox, uuidCounter, today, maxInFlight>>

\* lines 77-92: the activity is POSTed; the server names the new document
PostNotification(r) ==
  /\ runs[r].kind = "createMessageNotification" /\ runs[r].pc = "postInbox"
  /\ \E ok \in BOOLEAN :
       IF ok
       THEN LET name == runs[r].args.inbox \o <<Uuid(uuidCounter + 1)>>
            IN /\ inbox' = WriteDoc(inbox, name,
                             NewActivity(runs[r].args.senderId,
                                         runs[r].args.messageId,
                                         runs[r].args.chatId,
                                         runs[r].args.updated))
               /\ uuidCounter' = uuidCounter + 1
               /\ runs' = [runs EXCEPT ![r] =
                    [Returned(Settled(@, "postInbox", TRUE)) EXCEPT !.loc.posted = name]]
       ELSE /\ runs' = [runs EXCEPT ![r] = Rejected(@, "postInbox", StoreError)]
            /\ UNCHANGED <<inbox, uuidCounter>>
  /\ UNCHANGED <<chats, logs, acls, index, today, maxInFlight>>

(* ------------------------------ callers ------------------------------ *)
\* the caller abandons run r at an await (or the client crashes there)
Abandon(r) ==
  /\ InFlight(r)
  /\ runs' = [runs EXCEPT ![r].pc = "abandoned"]
  /\ UNCHANGED <<chats, logs, acls, index, inbox, uuidCounter, today, maxInFlight>>

\* the steps of useCreateChat
EstablishStep(r) ==
  \/ \E me \in People :
       \E otherPerson \in People \ {me} :
         \E otherChat \in ChatsOf(otherPerson) \cup {NoUri} :
           StartCreateChat(r, me, otherPerson, otherChat)
  \/ CreateChatDocument(r)
  \/ DiscoverAcl(r)
  \/ CreateAcl(r)
  \/ ReadPrivateTypeIndex(r)
  \/ WritePrivateTypeIndex(r)

\* the steps of useProcessNotification
ProcessStep(r) ==
  \/ \E n \in KnownNotifications, chat \in KnownChatIds, otherPerson \in Senders :
       \E otherChat \in ChatsOf(otherPerson) \cup {RemoteChat(otherPerson)} :
         StartProcessNotification(r, n, chat, otherChat, otherPerson)
  \/ ReadChat(r)
  \/ WriteChat(r)
  \/ DeleteNotification(r)

\* the steps of the hooks that work on chat documents
ChatStep(r) == EstablishStep(r) \/ ProcessStep(r)

\* the steps of useCreateMessage
AppendStep(r) ==
  \/ \E senderId \in People, chat \in KnownChatIds :
       StartCreateMessage(r, senderId, "hello", chat)
  \/ ReadLog(r)
  \/ WriteLog(r)

\* the steps of useCreateMessageNotification
EmitStep(r) ==
  \/ \E to \in People :
       \E senderId \in People \ {to} :
         \E chatId \in ChatsOf(senderId) \cup {RemoteChat(senderId)} :
           \E messageId \in ReturnedMessageIds \cup {chatId} :
             StartCreateMessageNotification(r, to, senderId, messageId, chatId)
  \/ PostNotification(r)

\* the steps of the hooks that work on messages and their notifications
MessageStep(r) == AppendStep(r) \/ EmitStep(r)

\* all four hooks, MaxMixedRuns runs
Next == \E r \in 1..MaxMixedRuns : ChatStep(r) \/ MessageStep(r) \/ Abandon(r)

Spec == Init /\ [][Next]_vars

\* useCreateChat and useProcessNotification alone, MaxRuns runs
NextChat == \E r \in RunIds : ChatStep(r) \/ Abandon(r)

SpecChat == Init /\ [][NextChat]_vars

\* useCreateMessage and useCreateMessageNotification alone, MaxRuns runs
NextMessages == \E r \in RunIds : MessageStep(r) \/ Abandon(r)

SpecMessages == Init /\ [][NextMessages]_vars

\* useCreateChat alone, MaxRuns runs
NextEstablish == \E r \in RunIds : EstablishStep(r) \/ Abandon(r)

SpecEstablish == Init /\ [][NextEstablish]_vars

\* useCreateMessage alone, MaxRuns runs
NextAppend == \E r \in RunIds : AppendStep(r) \/ Abandon(r)

SpecAppend == Init /\ [][NextAppend]_vars

\* the chat document alice's client created for bob, without otherChat, and
\* the one bob's client then created for alice, with alice's chat as
\* otherChat: what two useCreateChat runs that drew the first six
\* identifiers stored at lines 123-145
AliceChatFile == NewChatContainer(HospexContainer("alice"), Uuid(1)) \o <<"index.ttl">>
BobChatFile == NewChatContainer(HospexContainer("bob"), Uuid(4)) \o <<"index.ttl">>
AliceChatId == AliceChatFile \o <<"#", "this">>
BobChatId == BobChatFile \o <<"#", "this">>

EstablishedChats ==
  (AliceChatFile :>
     NewChat(AliceChatFile, AliceChatId, "alice", "bob", NoUri, 0,
             Uuid(2), Uuid(3)))
  @@
  (BobChatFile :>
     NewChat(BobChatFile, BobChatId, "bob", "alice", AliceChatId, 0,
             Uuid(5), Uuid(6)))

\* the day log of alice's chat after alice sent a first message there
EstablishedLogs ==
  LogDocument(AliceChatId, 0) :>
    << NewMessage(LogDocument(AliceChatId, 0) \o <<"#", "msg-" \o Uuid(7)>>,
                  0, "hello", "alice") >>

\* the store after those two chats were created and that message sent
InitEstablished ==
  /\ chats = EstablishedChats
  /\ logs = EstablishedLogs
  /\ acls = <<>>
  /\ index = InitIndex
  /\ inbox = InitInbox
  /\ runs = [r \in 1..MaxRuns |-> NoRun]
  /\ uuidCounter = 7
  /\ today = 0
  /\ maxInFlight = 1

\* useCreateMessageNotification and useProcessNotification on the
\* established chats, MaxRuns runs
NextInbox == \E r \in RunIds : EmitStep(r) \/ ProcessStep(r) \/ Abandon(r)

SpecInbox == InitEstablished /\ [][NextInbox]_vars

\* the same store with callers in several clients (or tabs) at work: up to
\* MaxInFlight runs are in flight and their awaited calls interleave
InitConcurrent ==
  /\ chats = EstablishedChats
  /\ logs = EstablishedLogs
  /\ acls = <<>>
  /\ index = InitIndex
  /\ inbox = InitInbox
  /\ runs = [r \in 1..MaxRuns |-> NoRun]
  /\ uuidCounter = 7
  /\ today = 0
  /\ maxInFlight = MaxInFlight

\* interleaved useProcessNotification runs
NextLinkRace == \E r \in RunIds : ProcessStep(r) \/ Abandon(r)

SpecLinkRace == InitConcurrent /\ [][NextLinkRace]_vars

\* interleaved useCreateMessage runs
NextAppendRace == \E r \in RunIds : AppendStep(r) \/ Abandon(r)

SpecAppendRace == InitConcurrent /\ [][NextAppendRace]_vars

\* two clients establish a conversation: the store before any hook ran,
\* with room for MaxHandshakeRuns runs
InitHandshake ==
  /\ chats = InitChats
  /\ logs = <<>>
  /\ acls = <<>>
  /\ index = InitIndex
  /\ inbox = InitInbox
  /\ runs = [r \in 1..MaxHandshakeRuns |-> NoRun]
  /\ uuidCounter = 0
  /\ today = 0
  /\ maxInFlight = 1

\* the clients go on to run r once the run before returned; past the
\* handshake they also go on after a processor run that failed
HandshakeReady(r) ==
  \/ r = 1
  \/ r > 1 /\ runs[r - 1].pc = "done"
  \/ r > 1 /\ runs[r - 1].kind = "processNotification"
           /\ runs[r - 1].pc = "failed" /\ runs[4].pc = "done"

\* the calls the two clients make, in order: A creates a chat for B, B
\* creates one with A's chat as otherChat, B notifies A, A processes the
\* notification against A's chat; then B notifies and A processes again
HandshakeStart(r) ==
  /\ HandshakeReady(r)
  /\ \/ /\ r = 1
        /\ \E A \in People : \E B \in People \ {A} :
             StartCreateChat(r, A, B, NoUri)
     \/ /\ r = 2
        /\ StartCreateChat(r, runs[1].args.otherPerson, runs[1].args.me,
                           runs[1].loc.chatId)
     \/ /\ r > 2 /\ r % 2 = 1
        /\ StartCreateMessageNotification(r, runs[1].args.me, runs[2].args.me,
                                          runs[2].loc.chatId, runs[2].loc.chatId)
     \/ /\ r > 2 /\ r % 2 = 0
        /\ StartProcessNotification(r, runs[r - 1].loc.posted,
                                    runs[1].loc.chatId, runs[2].loc.chatId,
                                    runs[2].args.me)

NextHandshake ==
  \E r \in RunIds :
    \/ HandshakeStart(r)
    \/ CreateChatDocument(r)
    \/ DiscoverAcl(r)
    \/ CreateAcl(r)
    \/ ReadPrivateTypeIndex(r)
    \/ WritePrivateTypeIndex(r)
    \/ PostNotification(r)
    \/ ReadChat(r)
    \/ WriteChat(r)
    \/ DeleteNotification(r)
    \/ Abandon(r)

SpecHandshake == InitHandshake /\ [][NextHandshake]_vars

(* ============================ properties ============================= *)
CreateChatRuns == {r \in RunIds : runs[r].kind = "createChat"}
ProcessRuns == {r \in RunIds : runs[r].kind = "processNotification"}
MessageRuns == {r \in RunIds : runs[r].kind = "createMessage"}

HasCall(r, c) == \E i \in 1..Len(runs[r].calls) : runs[r].calls[i].call = c
Succeeded(r, c) ==
  \E i \in 1..Len(runs[r].calls) : runs[r].calls[i] = [call |-> c, ok |-> TRUE]
FailedCall(r, c) ==
  \E i \in 1..Len(runs[r].calls) : runs[r].calls[i] = [call |-> c, ok |-> FALSE]

\* the participation of ldo that a link for person p goes to is already linked
EntryLinked(ldo, p) ==
  /\ ldo.hasParticipation
  /\ \E i \in 1..Len(ldo.participation) :
       /\ ldo.participation[i].participant = p
       /\ \A j \in 1..(i - 1) : ldo.participation[j].participant # p
       /\ ldo.participation[i].references # <<>>

\* C1: useProcessNotification deletes the notification only after the chat
\* update fulfilled: a run whose update failed (a guard threw or the store
\* rejected) ends failed without a delete call, and a notification leaves
\* the inbox only in the delete step of a run whose update fulfilled.
C1_DeleteOnlyAfterLink ==
  /\ [](\A r \in ProcessRuns :
          /\ (runs[r].pc = "deleteNotification" \/ HasCall(r, "deleteNotification"))
               => Succeeded(r, "updateChat")
          /\ FailedCall(r, "updateChat")
               => runs[r].pc = "failed" /\ ~HasCall(r, "deleteNotification"))
  /\ [][\A n \in DOMAIN inbox \ DOMAIN inbox' :
          \E r \in ProcessRuns :
            /\ runs[r].args.notificationId = n
            /\ Succeeded(r, "updateChat")
            /\ runs[r].pc = "deleteNotification"
            /\ runs'[r].pc = "done"]_vars

\* C1 witness: the store rejected a link that passed every guard; the run
\* ended failed and its notification is still in the inbox
C1_Witness ==
  \E r \in ProcessRuns :
    /\ runs[r].pc = "failed"
    /\ runs[r].result = StoreError
    /\ runs[r].calls = <<[call |-> "updateChat", ok |-> FALSE]>>
    /\ runs[r].loc.snap.hasParticipation
    /\ LinkError(runs[r].loc.snap, runs[r].args.otherPerson) = "ok"
    /\ runs[r].args.notificationId \in DOMAIN inbox

\* C2: the references of a participation go from empty to one element at
\* most once and are never overwritten; a useProcessNotification run whose
\* target participation is already linked changes neither the chats nor the
\* inbox, and its transform throws the "already references" error.
C2_ReferencesSetOnce ==
  /\ [][/\ \A u \in DOMAIN chats :
             /\ u \in DOMAIN chats'
             /\ Len(chats'[u].participation) = Len(chats[u].participation)
             /\ \A i \in 1..Len(chats[u].participation) :
                  /\ Len(chats'[u].participation[i].references) <= 1
                  /\ chats[u].participation[i].references # <<>>
                       => chats'[u].participation[i].references
                            = chats[u].participation[i].references
        /\ \A r \in ProcessRuns :
             (/\ runs[r].pc \in {"updateChat", "updateChatWrite"}
              /\ EntryLinked(ReadDoc(chats, runs[r].args.chat, EmptyChat),
                             runs[r].args.otherPerson)
              /\ Len(ReadDoc(chats, runs[r].args.chat, EmptyChat).participation) <= 2)
             => /\ chats' = chats
                /\ inbox' = inbox
                /\ runs'[r].pc \in {"updateChatWrite", "failed", "abandoned"}
                /\ (runs[r].pc = "updateChatWrite" /\ runs'[r].pc = "failed")
                     => runs'[r].result = AlreadyReferencesError]_vars
  /\ [](\A r \in ProcessRuns :
          runs[r].result = AlreadyReferencesError
            => runs[r].pc = "failed" /\ ~HasCall(r, "deleteNotification"))

\* C2 witness: a first run linked the participation and is done, a second
\* run for the same chat and person with another otherChat failed on the
\* guard, and the first link is still in place
C2_Witness ==
  \E r1 \in ProcessRuns, r2 \in ProcessRuns :
    /\ r1 < r2
    /\ runs[r1].pc = "done"
    /\ runs[r2].args.chat = runs[r1].args.chat
    /\ runs[r2].args.otherPerson = runs[r1].args.otherPerson
    /\ runs[r2].args.otherChat # runs[r1].args.otherChat
    /\ runs[r2].result = AlreadyReferencesError
    /\ \E i \in 1..2 :
         LET p == chats[DocOf(runs[r1].args.chat)].participation[i]
         IN p.participant = runs[r1].args.otherPerson
            /\ p.references = <<runs[r1].args.otherChat>>

\* C3: a chat created by the hooks never has more than two participations,
\* no hook changes the number of participations of any chat, and a
\* useProcessNotification run that fetched a chat with more than two
\* participations fails with the "too much participation" error, having
\* settled nothing but the failed update and leaving the chat as fetched.
C3_AtMostTwoParticipations ==
  /\ \A u \in DOMAIN chats :
       IF u \in DOMAIN InitChats
       THEN Len(chats[u].participation) = Len(InitChats[u].participation)
       ELSE Len(chats[u].participation) <= 2
  /\ \A r \in ProcessRuns :
       Len(runs[r].loc.snap.participation) > 2
         => /\ runs[r].pc \in {"updateChatWrite", "failed", "abandoned"}
            /\ runs[r].pc = "failed"
                 => /\ runs[r].result = TooMuchError
                    /\ runs[r].calls = <<[call |-> "updateChat", ok |-> FALSE]>>
            /\ ReadDoc(chats, runs[r].args.chat, EmptyChat) = runs[r].loc.snap

\* C3 witness: a run on the three-party chat was rejected while a chat the
\* hooks created is in the store
C3_Witness ==
  /\ \E r \in ProcessRuns :
       /\ runs[r].result = TooMuchError
       /\ Len(runs[r].loc.snap.participation) = 3
  /\ \E u \in DOMAIN chats : u \notin DOMAIN InitChats

\* C4: when the HEAD response carries no acl relation, useCreateChat ends
\* failed with the WAC-link error having called only the chat creation and
\* the HEAD; no authorization names the new container and no type
\* registration lists the new chat.
C4_NoAclLinkAborts ==
  \A r \in CreateChatRuns :
    (Succeeded(r, "head") /\ runs[r].loc.aclUri = NoUri)
      => /\ runs[r].pc = "failed"
         /\ runs[r].result = NoWacLink
         /\ runs[r].calls = <<[call |-> "createChat", ok |-> TRUE],
                              [call |-> "head", ok |-> TRUE]>>
         /\ \A a \in DOMAIN acls : \A i \in 1..Len(acls[a]) :
              /\ acls[a][i].default # runs[r].loc.chatContainer
              /\ \A j \in 1..Len(acls[a][i].accessTo) :
                   acls[a][i].accessTo[j] # runs[r].loc.chatContainer
         /\ \A x \in DOMAIN index : \A i \in 1..Len(index[x]) :
              \A j \in 1..Len(index[x][i].instance) :
                index[x][i].instance[j] # runs[r].loc.chatId

\* C4 witness: a run aborted on the missing link after its chat document
\* was created, while another run completed its ACL and index steps
C4_Witness ==
  \E r \in CreateChatRuns, q \in CreateChatRuns :
    /\ runs[r].result = NoWacLink
    /\ runs[r].loc.chatFile \in DOMAIN chats
    /\ runs[q].pc = "done"

\* C5 (as claimed): the document useCreateMessage reports as todayChat, the
\* document of the returned messageId and the document that received the
\* message are the same.
C5_ReportedDocumentIsTarget ==
  \A r \in MessageRuns :
    runs[r].pc = "done"
      => /\ runs[r].loc.chatFile = runs[r].loc.uri
         /\ DocOf(runs[r].loc.id) = runs[r].loc.uri
         /\ runs[r].loc.chatFile \in DOMAIN logs
         /\ \E i \in 1..Len(logs[runs[r].loc.chatFile]) :
              logs[runs[r].loc.chatFile][i].id = runs[r].loc.id

\* C6: two useCreateMessage runs on the same chat send their update to the
\* same log document exactly when the clock showed the same calendar date as
\* they picked it (line 41); a run during which the date did not change
\* reports that document and stamps the message with that date; a step
\* changes no log document but the one the stepping run targets, and there
\* it only appends.
C6_SameDateSameDocument ==
  /\ [](\A r1 \in MessageRuns, r2 \in MessageRuns :
          runs[r1].args.chat = runs[r2].args.chat
            => ((DateOf(runs[r1].loc.day2) = DateOf(runs[r2].loc.day2))
                  <=> (runs[r1].loc.uri = runs[r2].loc.uri)))
  /\ [](\A r \in MessageRuns :
          runs[r].loc.day1 = runs[r].loc.day2
            => /\ runs[r].loc.chatFile = runs[r].loc.uri
               /\ runs[r].loc.createdAt = runs[r].loc.day2)
  /\ [][\A u \in DOMAIN logs :
          /\ u \in DOMAIN logs'
          /\ \/ logs'[u] = logs[u]
             \/ /\ \E r \in MessageRuns :
                     /\ runs[r].pc = "updateLogWrite"
                     /\ runs'[r].pc = "done"
                     /\ runs[r].loc.uri = u
                /\ Len(logs'[u]) = Len(logs[u]) + 1
                /\ SubSeq(logs'[u], 1, Len(logs[u])) = logs[u]]_vars

\* C6 witness: three messages of one chat, two sent on one date into one
\* document and one sent on a later date into another document, the earlier
\* document still holding its two messages
C6_Witness ==
  \E r1 \in MessageRuns, r2 \in MessageRuns, r3 \in MessageRuns :
    /\ r1 < r2 /\ r2 < r3
    /\ runs[r1].pc = "done" /\ runs[r2].pc = "done" /\ runs[r3].pc = "done"
    /\ runs[r1].args.chat = runs[r2].args.chat
    /\ runs[r2].args.chat = runs[r3].args.chat
    /\ runs[r1].loc.day2 = runs[r2].loc.day2
    /\ runs[r2].loc.day2 < runs[r3].loc.day2
    /\ runs[r1].loc.uri = runs[r2].loc.uri
    /\ runs[r3].loc.uri # runs[r1].loc.uri
    /\ Len(logs[runs[r1].loc.uri]) = 2
    /\ Len(logs[runs[r3].loc.uri]) = 1

\* C7: abandoning useProcessNotification between the fulfilled chat update
\* and the delete leaves inbox and chats as they are; a notification leaves
\* the inbox only through a fulfilled delete; and a later run with the same
\* arguments as a run whose update fulfilled never reaches the delete: it
\* fails on the "already references" guard (or on the fetch).
C7_RetryAfterLinkFails ==
  /\ [][\A r \in ProcessRuns :
          (runs[r].pc = "deleteNotification" /\ runs'[r].pc = "abandoned")
            => inbox' = inbox /\ chats' = chats]_vars
  /\ [](\A n \in DOMAIN InitInbox :
          n \notin DOMAIN inbox
            => \E r \in ProcessRuns :
                 /\ runs[r].args.notificationId = n
                 /\ Succeeded(r, "deleteNotification"))
  /\ [](\A r1 \in ProcessRuns, r2 \in ProcessRuns :
          (/\ r1 < r2
           /\ runs[r1].args = runs[r2].args
           /\ Succeeded(r1, "updateChat"))
          => /\ runs[r2].pc \in {"updateChat", "updateChatWrite", "failed", "abandoned"}
             /\ ~HasCall(r2, "deleteNotification")
             /\ ~Succeeded(r2, "updateChat")
             /\ runs[r2].pc = "failed"
                  => runs[r2].result =
                       IF runs[r2].loc.snap = EmptyChat
                       THEN StoreError ELSE AlreadyReferencesError)

\* C7 witness: a run was abandoned after its update fulfilled, the rerun
\* with the same arguments failed on the guard, and the notification is
\* still in the inbox
C7_Witness ==
  \E r1 \in ProcessRuns, r2 \in ProcessRuns :
    /\ r1 < r2
    /\ runs[r1].args = runs[r2].args
    /\ runs[r1].pc = "abandoned"
    /\ runs[r1].calls = <<[call |-> "updateChat", ok |-> TRUE]>>
    /\ runs[r2].pc = "failed"
    /\ runs[r2].result = AlreadyReferencesError
    /\ runs[r1].args.notificationId \in DOMAIN inbox

\* C8: the chat document useCreateChat creates is authored by me and has
\* exactly two participations: me without references, then otherPerson
\* with references [otherChat] when otherChat was given and none otherwise;
\* afterwards the document keeps its author and its two participants.
C8_NewChatShape ==
  /\ [][\A r \in CreateChatRuns :
          (runs[r].pc = "createChat" /\ runs'[r].pc = "head")
            => /\ runs[r].loc.chatFile \notin DOMAIN chats
               /\ runs[r].loc.chatFile \in DOMAIN chats'
               /\ LET doc == chats'[runs[r].loc.chatFile]
                  IN /\ doc.id = runs[r].loc.chatId
                     /\ doc.author = runs[r].args.me
                     /\ doc.hasParticipation
                     /\ Len(doc.participation) = 2
                     /\ doc.participation[1].participant = runs[r].args.me
                     /\ doc.participation[1].references = <<>>
                     /\ doc.participation[2].participant = runs[r].args.otherPerson
                     /\ doc.participation[2].references =
                          IF runs[r].args.otherChat = NoUri
                          THEN <<>> ELSE <<runs[r].args.otherChat>>]_vars
  /\ [](\A r \in CreateChatRuns :
          Succeeded(r, "createChat")
            => /\ runs[r].loc.chatFile \in DOMAIN chats
               /\ LET doc == chats[runs[r].loc.chatFile]
                  IN /\ doc.author = runs[r].args.me
                     /\ Len(doc.participation) = 2
                     /\ doc.participation[1].participant = runs[r].args.me
                     /\ doc.participation[2].participant = runs[r].args.otherPerson)

\* C8 witness: one chat was created without otherChat and one with it, the
\* second referencing the first
C8_Witness ==
  \E r1 \in CreateChatRuns, r2 \in CreateChatRuns :
    /\ Succeeded(r1, "createChat") /\ Succeeded(r2, "createChat")
    /\ runs[r1].args.otherChat = NoUri
    /\ runs[r2].args.otherChat = runs[r1].loc.chatId
    /\ chats[runs[r1].loc.chatFile].participation[2].references = <<>>
    /\ chats[runs[r2].loc.chatFile].participation[2].references
         = <<runs[r1].loc.chatId>>

\* C9: once useCreateChat's ACL creation fulfilled, the ACL resource found
\* through the container's acl link holds exactly two authorizations for
\* the new container and its defaults, Read+Write+Control for me and Read
\* alone for otherPerson; every authorization in the store that grants
\* Write or Control names the creator of its container as only agent.
C9_TwoAuthorizations ==
  /\ \A r \in CreateChatRuns :
       Succeeded(r, "createAcl")
         => /\ runs[r].loc.aclUri = runs[r].loc.chatContainer \o <<".acl">>
            /\ runs[r].loc.aclUri \in DOMAIN acls
            /\ LET a == acls[runs[r].loc.aclUri]
               IN /\ Len(a) = 2
                  /\ a[1].agent = <<runs[r].args.me>>
                  /\ a[1].mode = {AclRead, AclWrite, AclControl}
                  /\ a[2].agent = <<runs[r].args.otherPerson>>
                  /\ a[2].mode = {AclRead}
                  /\ \A i \in 1..2 :
                       /\ a[i].accessTo = <<runs[r].loc.chatContainer>>
                       /\ a[i].default = runs[r].loc.chatContainer
  /\ \A u \in DOMAIN acls : \A i \in 1..Len(acls[u]) :
       acls[u][i].mode \cap {AclWrite, AclControl} # {}
         => \E r \in CreateChatRuns :
              /\ acls[u][i].accessTo = <<runs[r].loc.chatContainer>>
              /\ acls[u][i].agent = <<runs[r].args.me>>

\* C9 witness: two runs of different owners completed and their ACL
\* resources are in the store
C9_Witness ==
  \E r1 \in CreateChatRuns, r2 \in CreateChatRuns :
    /\ runs[r1].pc = "done" /\ runs[r2].pc = "done"
    /\ runs[r1].args.me # runs[r2].args.me
    /\ runs[r1].loc.aclUri \in DOMAIN acls
    /\ runs[r2].loc.aclUri \in DOMAIN acls

\* a registration for the chat class, under either spelling of the class
ForChatClass(registration) ==
  \E i \in 1..Len(registration.forClass) :
    registration.forClass[i] \in {MeetingLongChat, "LongChat"}

ChatRegistrations(references) ==
  {i \in 1..Len(references) : ForChatClass(references[i])}

\* C10: every private type index holds at most one registration for the
\* chat class; the index update of useCreateChat appends the chat id to the
\* instance list of that registration when there is one and appends a new
\* registration (forClass LongChat, instance the chat id) when there is
\* none; the chat id of every completed run is in the instance list of the
\* chat registration of its index.
C10_OneChatRegistration ==
  /\ [](\A x \in DOMAIN index : Cardinality(ChatRegistrations(index[x])) <= 1)
  /\ [](\A r \in CreateChatRuns :
          runs[r].pc = "done"
            => \E i \in ChatRegistrations(index[runs[r].args.privateTypeIndex]) :
                 \E j \in 1..Len(index[runs[r].args.privateTypeIndex][i].instance) :
                   index[runs[r].args.privateTypeIndex][i].instance[j]
                     = runs[r].loc.chatId)
  /\ [][\A r \in CreateChatRuns :
          (runs[r].pc = "updatePrivateWrite" /\ runs'[r].pc = "done")
            => LET old == index[runs[r].args.privateTypeIndex]
                   new == index'[runs[r].args.privateTypeIndex]
                   m == ChatRegistrations(old)
               IN IF m # {}
                  THEN /\ Len(new) = Len(old)
                       /\ \A i \in 1..Len(old) :
                            new[i] = IF i \in m
                                     THEN [old[i] EXCEPT !.instance =
                                             Append(@, runs[r].loc.chatId)]
                                     ELSE old[i]
                  ELSE /\ Len(new) = Len(old) + 1
                       /\ SubSeq(new, 1, Len(old)) = old
                       /\ new[Len(new)].forClass = <<"LongChat">>
                       /\ new[Len(new)].instance = <<runs[r].loc.chatId>>]_vars

\* C10 witness: two runs completed on an index that had no chat
\* registration: the first created it, the second appended to it
C10_Witness ==
  \E r1 \in CreateChatRuns, r2 \in CreateChatRuns :
    /\ r1 < r2
    /\ runs[r1].pc = "done" /\ runs[r2].pc = "done"
    /\ runs[r1].args.privateTypeIndex = runs[r2].args.privateTypeIndex
    /\ ChatRegistrations(InitIndex[runs[r1].args.privateTypeIndex]) = {}
    /\ LET refs == index[runs[r1].args.privateTypeIndex]
       IN /\ Len(refs) = 1
          /\ refs[1].instance = <<runs[r1].loc.chatId, runs[r2].loc.chatId>>

\* the awaited calls of useCreateChat in program order
EstablishCalls == <<"createChat", "head", "createAcl", "updatePrivate">>

\* some authorization in the store names container c
HasAuthorization(c) ==
  \E a \in DOMAIN acls : \E i \in 1..Len(acls[a]) :
    acls[a][i].default = c \/ acls[a][i].accessTo = <<c>>

\* some type registration in the store lists chat id
IsRegistered(id) ==
  \E x \in DOMAIN index : \E i \in 1..Len(index[x]) :
    \E j \in 1..Len(index[x][i].instance) : index[x][i].instance[j] = id

\* C11: the awaited calls of a useCreateChat run are a prefix of create
\* chat document, discover ACL, create ACL entries, update type index, each
\* made only after the one before fulfilled; a rejected call (or the missing
\* acl link) ends the run failed with no later call; the chat document is
\* in the store exactly when its creation fulfilled, the ACL entries exactly
\* when theirs did, the registration exactly when the index update did; and
\* no step of any run removes or changes a chat document or an ACL resource
\* or removes a registered instance (no rollback).
C11_SequentialNoRollback ==
  /\ [](\A r \in CreateChatRuns :
          LET calls == runs[r].calls
          IN /\ Len(calls) <= 4
             /\ \A i \in 1..Len(calls) : calls[i].call = EstablishCalls[i]
             /\ \A i \in 1..(Len(calls) - 1) : calls[i].ok
             /\ (Len(calls) > 0 /\ ~calls[Len(calls)].ok)
                  => runs[r].pc = "failed"
             /\ runs[r].pc = "failed"
                  => \/ ~calls[Len(calls)].ok
                     \/ runs[r].result = NoWacLink /\ Len(calls) = 2
             /\ runs[r].pc = "done" => Len(calls) = 4 /\ calls[4].ok
             /\ (runs[r].loc.chatFile \in DOMAIN chats)
                  <=> Succeeded(r, "createChat")
             /\ HasAuthorization(runs[r].loc.chatContainer)
                  <=> Succeeded(r, "createAcl")
             /\ IsRegistered(runs[r].loc.chatId)
                  <=> Succeeded(r, "updatePrivate"))
  /\ [][/\ \A u \in DOMAIN chats : u \in DOMAIN chats' /\ chats'[u] = chats[u]
        /\ \A a \in DOMAIN acls : a \in DOMAIN acls' /\ acls'[a] = acls[a]
        /\ \A x \in DOMAIN index :
             /\ x \in DOMAIN index'
             /\ Len(index'[x]) >= Len(index[x])
             /\ \A i \in 1..Len(index[x]) :
                  /\ Len(index'[x][i].instance) >= Len(index[x][i].instance)
                  /\ SubSeq(index'[x][i].instance, 1, Len(index[x][i].instance))
                       = index[x][i].instance]_vars

\* C11 witness: one run failed at the ACL creation and left a chat document
\* without ACL entries, another failed at the type index update and left a
\* chat document with ACL entries but without registration
C11_Witness ==
  \E r1 \in CreateChatRuns, r2 \in CreateChatRuns :
    /\ runs[r1].pc = "failed" /\ runs[r2].pc = "failed"
    /\ Len(runs[r1].calls) = 3 /\ ~runs[r1].calls[3].ok
    /\ runs[r1].loc.chatFile \in DOMAIN chats
    /\ ~HasAuthorization(runs[r1].loc.chatContainer)
    /\ ~IsRegistered(runs[r1].loc.chatId)
    /\ Len(runs[r2].calls) = 4 /\ ~runs[r2].calls[4].ok
    /\ runs[r2].loc.chatFile \in DOMAIN chats
    /\ HasAuthorization(runs[r2].loc.chatContainer)
    /\ ~IsRegistered(runs[r2].loc.chatId)

\* the authorizations run r stored, as its arguments determine them
StoredAuthorizations(r) ==
  NewAuthorizations(runs[r].loc.aclUri, runs[r].args.me,
                    runs[r].args.otherPerson, runs[r].loc.chatContainer)

\* C12: any two useCreateChat runs, whatever their outcome, use distinct
\* chat containers, chat documents and chat ids; and once a later run has
\* ended, the chat document and the ACL resource an earlier unsuccessful
\* run left behind are still in the store exactly as that run wrote them.
C12_FreshIdentifiers ==
  /\ \A r1 \in CreateChatRuns, r2 \in CreateChatRuns :
       r1 # r2
         => /\ runs[r1].loc.chatContainer # runs[r2].loc.chatContainer
            /\ runs[r1].loc.chatFile # runs[r2].loc.chatFile
            /\ runs[r1].loc.chatId # runs[r2].loc.chatId
  /\ \A r1 \in CreateChatRuns, r2 \in CreateChatRuns :
       (/\ r1 < r2
        /\ runs[r1].pc \in {"failed", "abandoned"}
        /\ Finished(r2))
         => /\ Succeeded(r1, "createChat")
                 => /\ runs[r1].loc.chatFile \in DOMAIN chats
                    /\ chats[runs[r1].loc.chatFile] = runs[r1].loc.data
            /\ Succeeded(r1, "createAcl")
                 => /\ runs[r1].loc.aclUri \in DOMAIN acls
                    /\ acls[runs[r1].loc.aclUri] = StoredAuthorizations(r1)

\* C12 witness: a run failed at the type index update, the retry with the
\* same arguments completed, and the chat document and ACL resource of the
\* failed run are still there beside those of the retry
C12_Witness ==
  \E r1 \in CreateChatRuns, r2 \in CreateChatRuns :
    /\ r1 < r2
    /\ runs[r1].args = runs[r2].args
    /\ runs[r1].pc = "failed" /\ Len(runs[r1].calls) = 4
    /\ runs[r2].pc = "done"
    /\ chats[runs[r1].loc.chatFile] = runs[r1].loc.data
    /\ chats[runs[r2].loc.chatFile] = runs[r2].loc.data
    /\ runs[r1].loc.aclUri \in DOMAIN acls
    /\ runs[r2].loc.aclUri \in DOMAIN acls
    /\ runs[r1].loc.aclUri # runs[r2].loc.aclUri

\* C13: a useCreateMessage run makes at most one awaited call, the update
\* of its target document, and ends done exactly when that call fulfilled;
\* the fulfilled update adds to the target document (an empty list when the
\* document was absent) exactly one record, last, with the run's id, its
\* createdAt, the message text and maker = senderId, and changes no other
\* message, document or store; a rejected update changes nothing and ends
\* the run failed with the store's error, with no second call.
C13_OneAppend ==
  /\ [](\A r \in MessageRuns :
          /\ Len(runs[r].calls) <= 1
          /\ \A i \in 1..Len(runs[r].calls) : runs[r].calls[i].call = "updateLog"
          /\ runs[r].pc = "done" <=> Succeeded(r, "updateLog")
          /\ runs[r].pc = "failed" <=> FailedCall(r, "updateLog")
          /\ runs[r].pc = "failed" => runs[r].result = StoreError)
  /\ [][\A r \in MessageRuns :
          /\ (runs[r].pc = "updateLogWrite" /\ runs'[r].pc = "done")
               => LET u == runs[r].loc.uri
                      old == IF u \in DOMAIN logs THEN logs[u] ELSE <<>>
                  IN /\ DOMAIN logs' = DOMAIN logs \cup {u}
                     /\ \A v \in DOMAIN logs : v # u => logs'[v] = logs[v]
                     /\ Len(logs'[u]) = Len(old) + 1
                     /\ SubSeq(logs'[u], 1, Len(old)) = old
                     /\ logs'[u][Len(old) + 1] =
                          [id |-> runs[r].loc.id,
                           created |-> runs[r].loc.createdAt,
                           content |-> runs[r].args.message,
                           maker |-> runs[r].args.senderId]
                     /\ chats' = chats /\ acls' = acls
                     /\ index' = index /\ inbox' = inbox
          /\ (runs[r].pc # "done" /\ runs'[r].pc # "done")
               => (runs'[r] # runs[r] => logs' = logs)]_vars

\* C13 witness: one run created a log document with its message, a second
\* appended to it leaving the first message in place, a third was rejected
\* and left the document as it was
C13_Witness ==
  \E r1 \in MessageRuns, r2 \in MessageRuns, r3 \in MessageRuns :
    /\ r1 < r2 /\ r2 < r3
    /\ runs[r1].pc = "done" /\ runs[r2].pc = "done" /\ runs[r3].pc = "failed"
    /\ runs[r1].loc.uri = runs[r2].loc.uri
    /\ runs[r3].loc.uri = runs[r1].loc.uri
    /\ Len(logs[runs[r1].loc.uri]) = 2
    /\ logs[runs[r1].loc.uri][1].id = runs[r1].loc.id
    /\ logs[runs[r1].loc.uri][2].id = runs[r2].loc.id
    /\ logs[runs[r1].loc.uri][2].maker = runs[r2].args.senderId

EmitRuns == {r \in RunIds : runs[r].kind = "createMessageNotification"}

\* the notifications some useProcessNotification run deleted
Deleted ==
  {runs[r].args.notificationId :
     r \in {q \in ProcessRuns : Succeeded(q, "deleteNotification")}}

\* C14: a useCreateMessageNotification run makes one awaited call; when it
\* fulfils, the inbox holds exactly one more document, under the inbox the
\* run was given and under a name never used before, with type Add, actor
\* senderId, object messageId, target chatId and the given updated, and
\* when it rejects the inbox is as before; no step of any run changes a
\* notification that stays in the inbox; a notification leaves the inbox
\* only through the fulfilled delete of a useProcessNotification run, at
\* most one run ever deletes a given notification, and a deleted
\* notification never comes back.
C14_CreateThenDelete ==
  /\ [](\A r \in EmitRuns :
          /\ Len(runs[r].calls) <= 1
          /\ runs[r].pc = "done" <=> Succeeded(r, "postInbox")
          /\ runs[r].pc = "failed" <=> FailedCall(r, "postInbox"))
  /\ [][\A r \in EmitRuns :
          /\ (runs[r].pc = "postInbox" /\ runs'[r].pc = "done")
               => \E n \in DOMAIN inbox' \ DOMAIN inbox :
                    /\ DOMAIN inbox' = DOMAIN inbox \cup {n}
                    /\ n \notin Deleted /\ n \notin DOMAIN InitInbox
                    /\ SubSeq(n, 1, Len(n) - 1) = runs[r].args.inbox
                    /\ inbox'[n].type = <<"Add">>
                    /\ inbox'[n].actor = runs[r].args.senderId
                    /\ inbox'[n].object = runs[r].args.messageId
                    /\ inbox'[n].target = runs[r].args.chatId
                    /\ inbox'[n].updated = runs[r].args.updated
          /\ (runs[r].pc = "postInbox" /\ runs'[r].pc # "done")
               => inbox' = inbox]_vars
  /\ [][/\ \A n \in DOMAIN inbox \cap DOMAIN inbox' : inbox'[n] = inbox[n]
        /\ \A n \in DOMAIN inbox \ DOMAIN inbox' :
             \E r \in ProcessRuns :
               /\ runs[r].args.notificationId = n
               /\ runs[r].pc = "deleteNotification"
               /\ Succeeded(r, "deleteNotification")'
        /\ \A n \in DOMAIN inbox' \ DOMAIN inbox :
             \E r \in EmitRuns : runs[r].pc = "postInbox" /\ runs'[r].pc = "done"]_vars
  /\ [](\A n \in Deleted :
          /\ n \notin DOMAIN inbox
          /\ Cardinality({r \in ProcessRuns :
                            /\ runs[r].args.notificationId = n
                            /\ Succeeded(r, "deleteNotification")}) = 1)

\* C14 witness: a notification was emitted into alice's inbox, a processor
\* run linked a chat and deleted it, and a later processor run on the same
\* notification linked as well but found nothing left to delete
C14_Witness ==
  \E e \in EmitRuns, r1 \in ProcessRuns, r2 \in ProcessRuns :
    /\ e < r1 /\ r1 < r2
    /\ runs[e].pc = "done"
    /\ runs[e].loc.posted \notin DOMAIN inbox
    /\ runs[r1].args.notificationId = runs[e].loc.posted
    /\ runs[r2].args.notificationId = runs[e].loc.posted
    /\ runs[r1].pc = "done"
    /\ Succeeded(r2, "updateChat")
    /\ FailedCall(r2, "deleteNotification")

\* the guards of useProcessNotification that chat ldo fails for person p,
\* numbered in the order the claim gives them
FailingGuards(ldo, p) ==
  {g \in 1..4 :
     \/ g = 1 /\ ~ldo.hasParticipation
     \/ g = 2 /\ ldo.hasParticipation /\ Len(ldo.participation) > 2
     \/ g = 3 /\ ldo.hasParticipation
              /\ \A i \in 1..Len(ldo.participation) :
                   ldo.participation[i].participant # p
     \/ g = 4 /\ EntryLinked(ldo, p)}

GuardErrors ==
  << "no participation",
     "too much participation (only 2 people supported!)",
     "other person's participation not found",
     "participation alread references some other chat" >>

\* C15: when the chat a useProcessNotification run fetched fails some
\* guard, the update rejects with the error of the first failing guard in
\* the order no participation, too much participation, other person's
\* participation not found, already references; that step leaves every
\* chat document as it was and the run ends failed with that one call; a
\* run whose chat fails no guard never ends with a guard's error.
C15_FirstFailingGuard ==
  /\ [][\A r \in ProcessRuns :
          LET failing == FailingGuards(runs[r].loc.snap, runs[r].args.otherPerson)
          IN (runs[r].pc = "updateChatWrite" /\ runs'[r] # runs[r]
              /\ runs'[r].pc # "abandoned")
               => IF failing # {}
                  THEN /\ runs'[r].pc = "failed"
                       /\ runs'[r].result =
                            GuardErrors[CHOOSE g \in failing :
                                          \A h \in failing : g <= h]
                       /\ runs'[r].calls = <<[call |-> "updateChat", ok |-> FALSE]>>
                       /\ chats' = chats
                  ELSE \A g \in 1..4 : runs'[r].result # GuardErrors[g]]_vars
  /\ [](\A r \in ProcessRuns :
          (\E g \in 1..4 : runs[r].result = GuardErrors[g])
            => /\ runs[r].pc = "failed"
               /\ runs[r].calls = <<[call |-> "updateChat", ok |-> FALSE]>>)

\* C15 witness: on the three-party chat a run for a person who is not in
\* it and a run for a person whose entry is already linked both failed with
\* "too much participation", and a run on the chat without participation
\* failed with "no participation"
C15_Witness ==
  \E r1 \in ProcessRuns, r2 \in ProcessRuns, r3 \in ProcessRuns :
    /\ FailingGuards(runs[r1].loc.snap, runs[r1].args.otherPerson) = {2, 3}
    /\ runs[r1].result = TooMuchError
    /\ FailingGuards(runs[r2].loc.snap, runs[r2].args.otherPerson) = {2, 4}
    /\ runs[r2].result = TooMuchError
    /\ FailingGuards(runs[r3].loc.snap, runs[r3].args.otherPerson) = {1}
    /\ runs[r3].result = NoParticipationError

\* C16: the step in which the chat update of a useProcessNotification run
\* fulfils changes, in the whole store, only the references of the first
\* participation of the given chat whose participant is otherPerson, from
\* empty to exactly [otherChat]: that entry's other fields, every other
\* entry, the number of entries, the chat's id, author and title, every
\* other chat document, the message logs, the ACL resources, the type
\* indexes and the inbox are as before.
C16_LinkFrame ==
  [][\A r \in ProcessRuns :
       (runs[r].pc = "updateChatWrite" /\ runs'[r].pc = "deleteNotification")
         => LET u == DocOf(runs[r].args.chat)
                old == chats[u]
                new == chats'[u]
                i == CHOOSE k \in 1..Len(old.participation) :
                       /\ old.participation[k].participant = runs[r].args.otherPerson
                       /\ \A j \in 1..(k - 1) :
                            old.participation[j].participant # runs[r].args.otherPerson
            IN /\ u \in DOMAIN chats /\ DOMAIN chats' = DOMAIN chats
               /\ \A v \in DOMAIN chats : v # u => chats'[v] = chats[v]
               /\ Len(new.participation) = Len(old.participation)
               /\ old.participation[i].participant = runs[r].args.otherPerson
               /\ old.participation[i].references = <<>>
               /\ new.participation[i] =
                    [old.participation[i] EXCEPT
                       !.references = <<runs[r].args.otherChat>>]
               /\ \A j \in 1..Len(old.participation) :
                    j # i => new.participation[j] = old.participation[j]
               /\ new.id = old.id /\ new.author = old.author
               /\ new.title = old.title /\ new.type = old.type
               /\ new.created2 = old.created2
               /\ logs' = logs /\ acls' = acls
               /\ index' = index /\ inbox' = inbox]_vars

\* C16 witness: a run linked bob's chat into bob's entry (the second) of
\* alice's chat; alice's own entry is still unlinked, bob's chat document
\* and the message alice sent are as they were
C16_Witness ==
  \E r \in ProcessRuns :
    /\ Succeeded(r, "updateChat")
    /\ runs[r].args.chat = AliceChatId
    /\ runs[r].args.otherPerson = "bob"
    /\ runs[r].args.otherChat = BobChatId
    /\ chats[AliceChatFile].participation[2].references = <<BobChatId>>
    /\ chats[AliceChatFile].participation[1].references = <<>>
    /\ chats[BobChatFile] = EstablishedChats[BobChatFile]
    /\ logs = EstablishedLogs

\* C17 (as claimed): of two useProcessNotification runs for the same chat
\* and the same otherPerson with different otherChat values, at most one
\* sets the reference, and a reference a run set is not overwritten: the
\* entry of every run whose update fulfilled holds that run's otherChat.
C17_OneLinkWins ==
  /\ \A r1 \in ProcessRuns, r2 \in ProcessRuns :
       (/\ r1 # r2
        /\ runs[r1].args.chat = runs[r2].args.chat
        /\ runs[r1].args.otherPerson = runs[r2].args.otherPerson
        /\ runs[r1].args.otherChat # runs[r2].args.otherChat)
         => ~(Succeeded(r1, "updateChat") /\ Succeeded(r2, "updateChat"))
  /\ \A r \in ProcessRuns :
       Succeeded(r, "updateChat")
         => \E i \in 1..Len(chats[DocOf(runs[r].args.chat)].participation) :
              LET p == chats[DocOf(runs[r].args.chat)].participation[i]
              IN /\ p.participant = runs[r].args.otherPerson
                 /\ p.references = <<runs[r].args.otherChat>>

\* C18 (as claimed): the message of every useCreateMessage run that
\* reported success is in the message list of the document the run wrote.
C18_NoLostMessage ==
  \A r \in MessageRuns :
    runs[r].pc = "done"
      => /\ runs[r].loc.uri \in DOMAIN logs
         /\ \E i \in 1..Len(logs[runs[r].loc.uri]) :
              logs[runs[r].loc.uri][i].id = runs[r].loc.id

\* chat document doc holds an entry for person p that references exactly
\* chat id
References(doc, p, id) ==
  /\ doc \in DOMAIN chats
  /\ \E i \in 1..Len(chats[doc].participation) :
       /\ chats[doc].participation[i].participant = p
       /\ chats[doc].participation[i].references = <<id>>

\* C19: once A created a chat without otherChat (run 1), B created one
\* with A's chat as otherChat (run 2), B emitted a notification into A's
\* inbox (run 3) and A's useProcessNotification with otherChat = B's chat
\* and otherPerson = B returned (run 4), A's entry for B references B's
\* chat, B's entry for A references A's chat and the notification is no
\* longer in the inbox, from then on; every later useProcessNotification
\* run on a further notification from B against A's chat makes no call but
\* the update, which rejects with the "already references" error once the
\* chat was fetched, and its notification stays in the inbox.
C19_Handshake ==
  /\ [](runs[4].pc = "done"
          => /\ runs[1].args.otherChat = NoUri
             /\ runs[2].args.otherChat = runs[1].loc.chatId
             /\ References(runs[1].loc.chatFile, runs[2].args.me, runs[2].loc.chatId)
             /\ References(runs[2].loc.chatFile, runs[1].args.me, runs[1].loc.chatId)
             /\ runs[3].loc.posted \notin DOMAIN inbox
             /\ runs[4].args.notificationId = runs[3].loc.posted)
  /\ [](\A r \in ProcessRuns :
          r > 4
            => /\ runs[r].args.notificationId = runs[r - 1].loc.posted
               /\ runs[r].args.notificationId # runs[3].loc.posted
               /\ runs[r].args.notificationId \in DOMAIN inbox
               /\ inbox[runs[r].args.notificationId].actor = runs[2].args.me
               /\ runs[r].pc \in {"updateChat", "updateChatWrite", "failed", "abandoned"}
               /\ ~HasCall(r, "deleteNotification")
               /\ ~Succeeded(r, "updateChat")
               /\ (runs[r].pc = "failed" /\ runs[r].loc.snap # EmptyChat)
                    => runs[r].result = "participation alread references some other chat")

\* C19 witness: the handshake completed, B sent two further notifications
\* and A's run on each failed at the guard; the chats reference each other,
\* the first notification is gone and the further ones are still in the
\* inbox
C19_Witness ==
  /\ runs[4].pc = "done"
  /\ \A r \in {6, 8} :
       /\ runs[r].pc = "failed"
       /\ runs[r].result = AlreadyReferencesError
       /\ runs[r - 1].loc.posted \in DOMAIN inbox
  /\ runs[3].loc.posted \notin DOMAIN inbox
  /\ References(runs[1].loc.chatFile, runs[2].args.me, runs[2].loc.chatId)
  /\ References(runs[2].loc.chatFile, runs[1].args.me, runs[1].loc.chatId)

====
